---- MODULE Spec2Model ----
(***************************************************************************)
(* Conversation compaction and chat turns of the chat relay backend.       *)
(*                                                                         *)
(* A behaviour runs one of two server variants, chosen by `backend`:        *)
(*   "supabase"  src/server.js: conversations and messages are rows of two *)
(*               database tables; every `await` on the database or on the  *)
(*               provider is a point where another request may run;        *)
(*   "json"      src/unnamed/part_001: the whole store is one object       *)
(*               cached in memory; only the provider calls are awaited.    *)
(*                                                                         *)
(* Text (message content, summary, title) is a sequence of one-character   *)
(* strings, so that trim() and slice() are computed and not assumed.       *)
(***************************************************************************)
EXTENDS Integers, Sequences, FiniteSets, TLC

\* ---------------------------------------------------------------- bounds
\* clock advances a behaviour may take
MaxTicks == 1
\* store / provider failures a behaviour may suffer
MaxFaults == 1
\* chunks the upstream stream of one turn may deliver
MaxChunks == 1

\* ------------------------------------------------------- program constants
minMessagesForSummary == 22
cooldownMs == 60000
keepLast == 12
minOldBatch == 12
MAX_TURNS == 20
titleMaxLen == 48

\* ------------------------------------------------------------------ text
Min(a, b) == IF a < b THEN a ELSE b
Max(a, b) == IF a > b THEN a ELSE b

Whitespace == {" "}

RECURSIVE TrimStart(_)
TrimStart(s) ==
    IF s # <<>> /\ Head(s) \in Whitespace THEN TrimStart(Tail(s)) ELSE s

RECURSIVE TrimEnd(_)
TrimEnd(s) ==
    IF s # <<>> /\ s[Len(s)] \in Whitespace
    THEN TrimEnd(SubSeq(s, 1, Len(s) - 1))
    ELSE s

\* String.prototype.trim
Trim(s) == TrimEnd(TrimStart(s))

\* Array.prototype.slice(from, to) with 0-based, possibly negative, indices
Slice(s, from, to) ==
    LET n == Len(s)
        f == IF from < 0 THEN Max(n + from, 0) ELSE Min(from, n)
        t == IF to < 0 THEN Max(n + to, 0) ELSE Min(to, n)
    IN  SubSeq(s, f + 1, t)

\* Array.prototype.slice(from)
SliceFrom(s, from) == Slice(s, from, Len(s))

PlaceholderTitle == <<"N", "o", "v", "a", " ", "c", "o", "n", "v", "e", "r", "s", "a">>
AttachmentNote == <<"[", "A", "n", "e", "x", "o", "]">>

\* ----------------------------------------------------------------- state
\* Request slots, each serving one accepted request of the behaviour, in this
\* order. A rejected request touches nothing another request reads, so it is
\* followed on slot 1 only, which stays free for the next request.
Procs == {1, 2}
ConvIds == {"c1", "c2"}
NoId == "none"
UnknownId == "zz"
NoConv == [absent |-> TRUE]

VARIABLES
    backend,        \* the server variant: "supabase" or "json"
    API_KEY,        \* TRUE iff ANTHROPIC_API_KEY is set
    conversations,  \* table conversations: id -> row
    messages,       \* table messages: rows in ts order (the order every select asks for)
    clock,          \* what Date.now() returns
    ticks,          \* clock advances taken
    settings,       \* table settings: the value of key system_prompt
    idBase,         \* identity of the first row the behaviour inserts
    pc,             \* per request slot: the await the handler is parked at
    req,            \* per request slot: the request body
    loc,            \* per request slot: the handler's local variables
    res,            \* per request slot: what was written to the response
    overlapping,    \* TRUE iff the requests of this behaviour may overlap
    faults,         \* failures injected
    lastDeleted,    \* per conversation: ids of the rows the last compaction removed
    summarySrc      \* per conversation: ids of the rows the stored summary was made from

vars == <<backend, API_KEY, conversations, messages, settings, clock, ticks, idBase, pc, req, loc,
          res, overlapping, faults, lastDeleted, summarySrc>>

store == <<conversations, messages>>
config == <<backend, API_KEY, settings, idBase, overlapping>>
time == <<clock, ticks>>
ghost == <<lastDeleted, summarySrc>>

\* ------------------------------------------------------- the two tables
\* A row of table messages. Column id stands for the row's identity: the code
\* never selects it (it selects role, content, ts) and no operator that models
\* code reads it.
Row(cid, role, content, ts, id) ==
    [cid |-> cid, role |-> role, content |-> content, ts |-> ts, id |-> id]

\* .from("messages").select("role, content, ts").eq("conversation_id", cid)
\*   .order("ts", { ascending: true })
SelectMessages(table, cid) == SelectSeq(table, LAMBDA r : r.cid = cid)

\* where an inserted row may land in ts order (rows of equal ts: any order)
InsertPositions(table, row) ==
    {i \in 0..Len(table) :
        /\ \A j \in 1..i : table[j].ts <= row.ts
        /\ \A j \in (i + 1)..Len(table) : table[j].ts >= row.ts}

\* .from("messages").insert(row)
InsertRow(table, i, row) ==
    SubSeq(table, 1, i) \o <<row>> \o SubSeq(table, i + 1, Len(table))

\* the delete without its .eq("conversation_id", cid)
DeleteByTs_AnyConversation(table, cid, tsSet) ==
    SelectSeq(table, LAMBDA r : r.ts \notin tsSet)

\* .from("messages").delete().eq("conversation_id", cid).in("ts", tsSet)
DeleteByTs(table, cid, tsSet) ==
    SelectSeq(table, LAMBDA r : ~(r.cid = cid /\ r.ts \in tsSet))

\* .from("conversations").select("*").eq("id", cid).single()
SelectConversation(table, cid) ==
    IF cid \in DOMAIN table THEN table[cid] ELSE NoConv

Ids(rows) == {rows[i].id : i \in 1..Len(rows)}
TsOf(rows) == {rows[i].ts : i \in 1..Len(rows)}

\* ------------------------------------------------------------------ Init
\* The store outlives the server process: a behaviour starts from a stored
\* conversation c1 of n messages written by earlier turns. dup > 0: rows dup and
\* dup + 1 were inserted within the same millisecond (two overlapping turns).
\* recent: a compaction succeeded cooldownMs - 1 ms before the start, kept
\* keepLast rows, and a burst of turns followed it.
StartClock == 2 * cooldownMs

LastSummaryAt(recent) == IF recent THEN StartClock - (cooldownMs - 1) ELSE 0

StoredHistory(n, dup, recent) ==
    [i \in 1..n |->
        Row("c1", IF i % 2 = 1 THEN "user" ELSE "assistant", <<"h">>,
            (IF i > keepLast THEN LastSummaryAt(recent) ELSE 0)
                + (IF dup > 0 /\ i > dup THEN i - 1 ELSE i),
            i)]

OtherHistory == <<Row("c2", "user", <<"x">>, 1, 0 - 1), Row("c2", "assistant", <<"y">>, 2, 0 - 2)>>

InitTable(n, dup, recent) ==
    LET H == StoredHistory(n, dup, recent)
    IN  IF n < 2 THEN OtherHistory \o H
        ELSE <<OtherHistory[1], H[1], OtherHistory[2], H[2]>> \o SubSeq(H, 3, n)

NearlyDue == keepLast + minOldBatch - 1

\* overlap: the two requests of the behaviour may overlap (then nothing fails);
\* otherwise the second request arrives
\* after the first has ended, and the first one's response is forgotten.
InitCases ==
    {[n |-> 0, dup |-> 0, recent |-> FALSE, key |-> TRUE, overlap |-> FALSE],
     [n |-> 0, dup |-> 0, recent |-> FALSE, key |-> TRUE, overlap |-> TRUE],
     [n |-> 0, dup |-> 0, recent |-> FALSE, key |-> FALSE, overlap |-> FALSE],
     [n |-> minMessagesForSummary - 1, dup |-> 0, recent |-> FALSE, key |-> TRUE,
      overlap |-> FALSE],
     [n |-> NearlyDue, dup |-> 0, recent |-> FALSE, key |-> TRUE, overlap |-> FALSE],
     [n |-> NearlyDue, dup |-> 0, recent |-> FALSE, key |-> TRUE, overlap |-> TRUE],
     [n |-> NearlyDue, dup |-> NearlyDue + 1 - keepLast, recent |-> FALSE, key |-> TRUE,
      overlap |-> FALSE],
     [n |-> NearlyDue, dup |-> 0, recent |-> TRUE, key |-> TRUE, overlap |-> FALSE]}

OldSummary == <<"O">>

InitConversations(c) ==
    [c1 |-> [title |-> IF c.n = 0 THEN PlaceholderTitle ELSE <<"h">>,
             summary |-> IF c.recent THEN OldSummary ELSE <<>>,
             summary_updated_at |-> LastSummaryAt(c.recent),
             updated_at |-> IF c.n = 0 THEN 0 ELSE StoredHistory(c.n, c.dup, c.recent)[c.n].ts],
     c2 |-> [title |-> <<"x">>, summary |-> <<>>, summary_updated_at |-> 0,
             updated_at |-> 2]]

InitLoc ==
    [conv |-> NoConv, now |-> 0, msgs |-> <<>>, summary |-> <<>>,
     system |-> <<>>, history |-> <<>>, assistantText |-> <<>>,
     detached |-> FALSE, orphan |-> <<>>,
     model |-> "", chosenModel |-> ""]

InitReq == [conversationId |-> NoId, message |-> <<>>, attachments |-> FALSE]

\* escaped: an exception left the handler; closed: the client has disconnected
InitRes == [status |-> 0, events |-> <<>>, ended |-> FALSE, escaped |-> FALSE,
            closed |-> FALSE]

Backends == {"supabase", "json"}

Init ==
    \E c \in InitCases, b \in Backends :
        /\ backend = b
        /\ API_KEY = c.key
        /\ conversations = InitConversations(c)
        /\ messages = InitTable(c.n, c.dup, c.recent)
        /\ settings = IF c.n = 0 THEN <<>> ELSE <<"P">>
        /\ clock = StartClock
        /\ ticks = 0
        /\ idBase = c.n + 1
        /\ pc = [p \in Procs |-> "idle"]
        /\ req = [p \in Procs |-> InitReq]
        /\ loc = [p \in Procs |-> InitLoc]
        /\ res = [p \in Procs |-> InitRes]
        /\ overlapping = c.overlap
        /\ faults = 0
        /\ lastDeleted = [k \in ConvIds |-> IF k = "c1" /\ c.recent THEN {0} ELSE {}]
        /\ summarySrc = [k \in ConvIds |-> IF k = "c1" /\ c.recent THEN {0} ELSE {}]

Free(p) == pc[p] \in {"idle", "rejected"}

\* slot p may take up a request: the slots before it are taken and, unless
\* requests overlap, their requests are over
Startable(p) ==
    /\ Free(p)
    /\ \A q \in Procs : q < p => ~Free(q) /\ (overlapping \/ pc[q] \in {"done", "retired"})

\* the awaits after which the handler reads Date.now() (lines 173, 218, 257,
\* 414, 419; part_001 lines 87, 127, 202, 338; part_000 lines 365, 376)
ClockReaders == {"sumRead", "sumFetch", "sumDelete", "stream", "saveAssistant", "save"}

\* ----------------------------------------------------------------- clock
\* Date.now() is read where the code reads it; between two steps it may stay
\* the same millisecond or move on. An advance that no handler is about to
\* read is taken with the next one that is.
Tick ==
    /\ ticks < MaxTicks
    /\ \E p \in Procs : Startable(p) \/ pc[p] \in ClockReaders
    /\ clock' = clock + 1
    /\ ticks' = ticks + 1
    /\ UNCHANGED <<config, store, pc, req, loc, res, faults, ghost>>

\* A database or provider operation fails at most MaxFaults times, only in a
\* behaviour whose requests do not overlap, and there in the first request:
\* the second one runs on what the first has left.
MayFail ==
    /\ faults < MaxFaults
    /\ ~overlapping
    /\ \A q \in Procs : q > 1 => pc[q] = "idle"
Outcomes == IF MayFail THEN {TRUE, FALSE} ELSE {TRUE}
Cost(ok) == IF ok THEN 0 ELSE 1
\* the outcomes of two database operations of one step
Outcomes2 == {o \in Outcomes \X Outcomes : faults + Cost(o[1]) + Cost(o[2]) <= MaxFaults}

\* --------------------------------------------------- request bodies (input)
Bodies ==
    {[conversationId |-> "c1", message |-> <<" ", "u">>, attachments |-> FALSE],
     [conversationId |-> "c1", message |-> <<" ">>, attachments |-> TRUE],
     [conversationId |-> "c1", message |-> <<" ">>, attachments |-> FALSE],
     [conversationId |-> "c1", message |-> <<>>, attachments |-> FALSE],
     [conversationId |-> NoId, message |-> <<"u">>, attachments |-> FALSE],
     [conversationId |-> UnknownId, message |-> <<"u">>, attachments |-> FALSE]}

\* const userText = (message || "").trim()
UserText(body) == Trim(body.message)

\* the message is tested as sent, not trimmed
ValidationError_Untrimmed(body) ==
    IF body.conversationId = NoId THEN "conversationId"
    ELSE IF body.message = <<>> /\ ~body.attachments THEN "empty"
    ELSE ""

\* lines 236-241: the two 400 answers, in the code's order ("" when the body passes)
ValidationError(body) ==
    IF body.conversationId = NoId THEN "conversationId"
    ELSE IF UserText(body) = <<>> /\ ~body.attachments THEN "empty"
    ELSE ""

\* lines 227-254: the answer that ends the request before any write (0: none)
Rejection(key, body, conv) ==
    IF ~key THEN 500
    ELSE IF ValidationError(body) # "" THEN 400
    ELSE IF conv = NoConv THEN 404
    ELSE 0

Respond(r, status) == [r EXCEPT !.status = status, !.ended = TRUE]

\* res.write(`event: ...`): the first write sends the headers (status 200)
WriteEvent(r, e) ==
    [r EXCEPT !.status = IF r.status = 0 THEN 200 ELSE r.status,
              !.events = Append(r.events, e)]

\* ------------------------------------------------ POST /api/chat/stream
\* Lines 227-257: credential check, validation, select of the conversation,
\* const now = Date.now().
ChatStream(p) ==
    /\ backend = "supabase"
    /\ Startable(p)
    /\ \E body \in Bodies, ok \in Outcomes :
        LET reads == API_KEY /\ ValidationError(body) = ""
            conv == IF ok THEN SelectConversation(conversations, body.conversationId)
                    ELSE NoConv
            rejected == Rejection(API_KEY, body, conv)
            forget == {q \in Procs : q < p /\ ~overlapping /\ rejected = 0}
        IN  /\ ok \/ reads
            /\ rejected # 0 => p = 1
            /\ req' = [q \in Procs |->
                        IF q = p THEN body ELSE IF q \in forget THEN InitReq ELSE req[q]]
            /\ faults' = faults + Cost(ok)
            /\ res' = [q \in Procs |->
                        IF q = p THEN (IF rejected # 0 THEN Respond(InitRes, rejected)
                                       ELSE InitRes)
                        ELSE IF q \in forget THEN InitRes ELSE res[q]]
            /\ pc' = [q \in Procs |->
                        IF q = p THEN (IF rejected # 0 THEN "rejected" ELSE "saveUser")
                        ELSE IF q \in forget THEN "retired" ELSE pc[q]]
            /\ loc' = [loc EXCEPT ![p] =
                        IF rejected # 0 THEN InitLoc
                        ELSE [InitLoc EXCEPT !.conv = conv, !.now = clock]]
    /\ UNCHANGED <<config, store, time, ghost>>

\* content: userText || "[Anexo enviado]"
UserContent(body) == IF UserText(body) # <<>> THEN UserText(body) ELSE AttachmentNote

\* Lines 268-270
NewTitle(title, userText) ==
    IF title = <<>> \/ title = PlaceholderTitle
    THEN Slice(IF userText # <<>> THEN userText ELSE PlaceholderTitle, 0, titleMaxLen)
    ELSE title

\* Lines 259-277: insert of the user message (an insert error is logged and the
\* handler goes on), update of title and updated_at (its result is not looked
\* at); maybeSummarizeConversation is entered (line 155: if (!API_KEY) return).
SaveUserTurn(p) ==
    /\ backend = "supabase"
    /\ pc[p] = "saveUser"
    /\ \E o \in Outcomes2 :
        LET cid == req[p].conversationId
            row == Row(cid, "user", UserContent(req[p]), loc[p].now,
                       idBase + 2 * p - 2)
        IN  /\ faults' = faults + Cost(o[1]) + Cost(o[2])
            /\ IF o[1]
               THEN \E i \in InsertPositions(messages, row) :
                        messages' = InsertRow(messages, i, row)
               ELSE UNCHANGED messages
            /\ IF o[2] /\ cid \in DOMAIN conversations
               THEN conversations' =
                        [conversations EXCEPT
                            ![cid].title = NewTitle(loc[p].conv.title, UserText(req[p])),
                            ![cid].updated_at = loc[p].now]
               ELSE UNCHANGED conversations
    /\ pc' = [pc EXCEPT ![p] = IF API_KEY THEN "sumRead" ELSE "readContext"]
    /\ loc' = [loc EXCEPT ![p].conv = NoConv, ![p].now = 0]
    /\ UNCHANGED <<config, time, req, res, ghost>>

\* ------------------------------------------- maybeSummarizeConversation
\* the old slice taken to be the whole list
OldSlice_Whole(msgs) == msgs

\* const old = msgs.slice(0, Math.max(0, msgs.length - keepLast))
OldSlice(msgs) == Slice(msgs, 0, Max(0, Len(msgs) - keepLast))

\* line 170: if (!msgs || msgs.length < 22) return
TooFewMessages(msgs) == Len(msgs) < minMessagesForSummary

\* the cooldown taken in seconds against a clock in milliseconds
InCooldown_Seconds(lastSum, now) == now - lastSum < cooldownMs \div 1000

\* lines 172-173: if (Date.now() - lastSum < 60_000) return
InCooldown(lastSum, now) == now - lastSum < cooldownMs

\* a minimum batch of 10 (what 22 - keepLast would need)
OldTooSmall_Batch10(old) == Len(old) < minMessagesForSummary - keepLast

\* line 177: if (old.length < 12) return
OldTooSmall(old) == Len(old) < minOldBatch

\* only the cooldown is looked at
CompactionDue_CooldownOnly(msgs, lastSum, now) == ~InCooldown(lastSum, now)

\* lines 170-177: the three returns, in order
CompactionDue(msgs, lastSum, now) ==
    /\ ~TooFewMessages(msgs)
    /\ ~InCooldown(lastSum, now)
    /\ ~OldTooSmall(OldSlice(msgs))

ToUpperCase(role) == IF role = "user" THEN "USER" ELSE "ASSISTANT"

\* line 179: old.map((m) => `${m.role.toUpperCase()}: ${m.content}`)
Transcript(old) ==
    [i \in 1..Len(old) |-> [role |-> ToUpperCase(old[i].role), content |-> old[i].content]]

\* line 207: msgs.slice(0, msgs.length - keepLast).map(m => m.ts)
OldTs(msgs) == TsOf(Slice(msgs, 0, Len(msgs) - keepLast))

\* what the summarizer may answer
TextBlock(t) == [type |-> "text", text |-> t]
OtherBlock(t) == [type |-> "tool_use", text |-> t]
NewSummary == <<"S">>

SummarizerContents ==
    {<<TextBlock(NewSummary)>>,
     <<OtherBlock(<<>>), TextBlock(<<" ", "S", " ">>)>>,
     <<OtherBlock(NewSummary)>>,
     <<TextBlock(<<" ">>)>>,
     <<>>}

SummarizerFailures == {"throw", "status", "garbled"}

\* pickTextFromAnthropic: the text of the first block of type "text", else the
\* text of the first block, else ""
pickTextFromAnthropic(content) ==
    LET texts == {i \in 1..Len(content) : content[i].type = "text"}
        first == CHOOSE i \in texts : \A j \in texts : i <= j
        found == IF texts # {} THEN content[first].text ELSE <<>>
        head == IF Len(content) > 0 THEN content[1].text ELSE <<>>
    IN  IF found # <<>> THEN found ELSE head

\* lines 157-199: select of the conversation (if (!conv) return), select of the
\* messages, the three trigger checks, and the summarizer request is sent
SumRead(p) ==
    /\ backend = "supabase"
    /\ pc[p] = "sumRead"
    /\ \E o \in Outcomes2 :
        LET cid == req[p].conversationId
            conv == IF o[1] THEN SelectConversation(conversations, cid) ELSE NoConv
            msgs == SelectMessages(messages, cid)
            due == /\ conv # NoConv
                   /\ o[2]
                   /\ CompactionDue(msgs, conv.summary_updated_at, clock)
        IN  /\ o[1] \/ o[2]
            /\ faults' = faults + Cost(o[1]) + Cost(o[2])
            /\ loc' = [loc EXCEPT ![p].msgs = IF due THEN msgs ELSE <<>>]
            /\ pc' = [pc EXCEPT ![p] = IF due THEN "sumFetch" ELSE "readContext"]
    /\ UNCHANGED <<config, store, time, req, res, ghost>>

\* lines 187-208: the summarizer answers. A network error and a body that is
\* not JSON throw out of maybeSummarizeConversation into the handler's catch
\* (lines 425-428); a non-success status and an empty summary return.
SumFetch(p) ==
    /\ backend = "supabase"
    /\ pc[p] = "sumFetch"
    /\ \/ /\ MayFail
          /\ faults' = faults + 1
          /\ \E f \in SummarizerFailures :
                IF f = "status"
                THEN /\ pc' = [pc EXCEPT ![p] = "readContext"]
                     /\ loc' = [loc EXCEPT ![p].msgs = <<>>]
                     /\ UNCHANGED res
                ELSE /\ pc' = [pc EXCEPT ![p] = "done"]
                     /\ loc' = [loc EXCEPT ![p] = InitLoc]
                     /\ res' = [res EXCEPT ![p] = Respond(res[p], 500)]
       \/ /\ UNCHANGED <<faults, res>>
          /\ \E content \in SummarizerContents :
                LET summary == Trim(pickTextFromAnthropic(content))
                IN  IF summary = <<>>
                    THEN /\ pc' = [pc EXCEPT ![p] = "readContext"]
                         /\ loc' = [loc EXCEPT ![p].msgs = <<>>]
                    ELSE /\ pc' = [pc EXCEPT ![p] =
                                IF OldTs(loc[p].msgs) # {} THEN "sumDelete" ELSE "sumUpdate"]
                         /\ loc' = [loc EXCEPT ![p].summary = summary, ![p].now = clock]
    /\ UNCHANGED <<config, store, time, req, ghost>>

\* lines 209-214: delete of the old rows, by ts (its result is not looked at)
SumDelete(p) ==
    /\ backend = "supabase"
    /\ pc[p] = "sumDelete"
    /\ \E ok \in Outcomes :
        LET cid == req[p].conversationId
            after == DeleteByTs(messages, cid, OldTs(loc[p].msgs))
        IN  /\ faults' = faults + Cost(ok)
            /\ messages' = IF ok THEN after ELSE messages
            /\ lastDeleted' = IF ok
                              THEN [lastDeleted EXCEPT ![cid] = Ids(messages) \ Ids(after)]
                              ELSE lastDeleted
    /\ pc' = [pc EXCEPT ![p] = "sumUpdate"]
    /\ loc' = [loc EXCEPT ![p].now = clock]
    /\ UNCHANGED <<config, conversations, time, req, res, summarySrc>>

\* lines 216-219: update of summary, summary_updated_at, updated_at (its result
\* is not looked at)
SumUpdate(p) ==
    /\ backend = "supabase"
    /\ pc[p] = "sumUpdate"
    /\ \E ok \in Outcomes :
        LET cid == req[p].conversationId
        IN  /\ faults' = faults + Cost(ok)
            /\ IF ok /\ cid \in DOMAIN conversations
               THEN /\ conversations' =
                        [conversations EXCEPT
                            ![cid].summary = loc[p].summary,
                            ![cid].summary_updated_at = loc[p].now,
                            ![cid].updated_at = loc[p].now]
                    /\ summarySrc' = [summarySrc EXCEPT ![cid] = Ids(OldSlice(loc[p].msgs))]
               ELSE UNCHANGED <<conversations, summarySrc>>
    /\ pc' = [pc EXCEPT ![p] = "readContext"]
    /\ loc' = [loc EXCEPT ![p].msgs = <<>>, ![p].summary = <<>>, ![p].now = 0]
    /\ UNCHANGED <<config, messages, time, req, res, lastDeleted>>

\* ------------------------------------------------------- model identifiers
\* Model names are strings: Len, SubSeq and \o read them character by character.
MODEL_SONNET == "claude-sonnet-4-5"
MODEL_HAIKU == "claude-haiku-4-5"

\* the model field is absent from the body (or empty: both are falsy)
NoModel == ""

\* the model strings a client sends: absent, recognised, stale (dated suffix),
\* unknown with a trailing blank
Models == {NoModel, "claude-haiku-4-5", "claude-sonnet-4-5-20251001", "gpt-4 "}

\* String.prototype.startsWith
StartsWith(s, prefix) ==
    Len(s) >= Len(prefix) /\ SubSeq(s, 1, Len(prefix)) = prefix

\* String.prototype.includes
Includes(s, part) ==
    \E i \in 1..(Len(s) - Len(part) + 1) : SubSeq(s, i, i + Len(part) - 1) = part

RECURSIVE StrTrimStart(_)
StrTrimStart(s) ==
    IF Len(s) > 0 /\ SubSeq(s, 1, 1) \in Whitespace
    THEN StrTrimStart(SubSeq(s, 2, Len(s))) ELSE s

RECURSIVE StrTrimEnd(_)
StrTrimEnd(s) ==
    IF Len(s) > 0 /\ SubSeq(s, Len(s), Len(s)) \in Whitespace
    THEN StrTrimEnd(SubSeq(s, 1, Len(s) - 1)) ELSE s

\* String.prototype.trim on a model name
StrTrim(s) == StrTrimEnd(StrTrimStart(s))

\* lines 326-337
normalizeModel(m) ==
    IF m = NoModel THEN MODEL_SONNET
    ELSE LET t == StrTrim(m)
         IN  IF StartsWith(t, "claude-sonnet-4-5") THEN MODEL_SONNET
             ELSE IF StartsWith(t, "claude-haiku-4-5") THEN MODEL_HAIKU
             ELSE MODEL_SONNET

\* ------------------------------------------- the turn after the compaction
SummaryBanner == <<"C", "t", "x", ":">>

\* lines 293-296 and 357: the system prompt; <<>> stands for "not sent"
SystemPrompt(summary, userSystemPrompt) ==
    Trim((IF summary # <<>> THEN SummaryBanner \o <<"\n">> \o summary \o <<"\n", "\n">>
          ELSE <<>>)
         \o userSystemPrompt)

\* lines 304-320: the content of the current turn: the blocks, or the bare text
\* when there is no block
CurrentContent(body) ==
    LET blocks == (IF UserText(body) # <<>>
                   THEN <<[type |-> "text", text |-> UserText(body)]>> ELSE <<>>)
                  \o (IF body.attachments THEN <<[type |-> "image", text |-> <<>>]>> ELSE <<>>)
    IN  IF blocks # <<>> THEN blocks ELSE UserText(body)

\* lines 298-302 and 320: (msgs || []).slice(-MAX_TURNS), then the current turn
History(msgs, body) ==
    LET last == SliceFrom(msgs, 0 - MAX_TURNS)
    IN  [i \in 1..Len(last) |->
            [role |-> last[i].role, content |-> last[i].content, id |-> last[i].id]]
        \o <<[role |-> "user", content |-> CurrentContent(body), id |-> 0]>>

\* lines 279-360: second select of the conversation, select of the messages,
\* getSetting; the request to the primary model is built and sent
ReadContext(p) ==
    /\ backend = "supabase"
    /\ pc[p] = "readContext"
    /\ \E o \in Outcomes2, model \in Models :
        LET cid == req[p].conversationId
            conv2 == IF o[1] THEN SelectConversation(conversations, cid) ELSE NoConv
            msgs == IF o[2] THEN SelectMessages(messages, cid) ELSE <<>>
        IN  /\ faults' = faults + Cost(o[1]) + Cost(o[2])
            /\ loc' = [loc EXCEPT
                        ![p].system = SystemPrompt(IF conv2 = NoConv THEN <<>> ELSE conv2.summary,
                                                   settings),
                        ![p].history = History(msgs, req[p]),
                        ![p].model = model,
                        ![p].chosenModel = normalizeModel(model)]
    /\ pc' = [pc EXCEPT ![p] = "fetch"]
    /\ UNCHANGED <<config, store, time, req, res, ghost>>

PrimaryFailures == {"status", "throw"}

\* lines 345-371: the primary model answers the request. Non-success: the error
\* event is written and the response ended. A thrown error: the catch answers 500.
PrimaryFetch(p) ==
    /\ pc[p] = "fetch"
    /\ \/ /\ MayFail
          /\ faults' = faults + 1
          /\ \E f \in PrimaryFailures :
                /\ pc' = [pc EXCEPT ![p] = "done"]
                /\ res' = [res EXCEPT ![p] =
                            IF f = "status"
                            THEN [WriteEvent(res[p], "error") EXCEPT !.ended = TRUE]
                            ELSE Respond(res[p], 500)]
                /\ loc' = [loc EXCEPT ![p] = InitLoc]
       \/ /\ pc' = [pc EXCEPT ![p] = "stream"]
          /\ loc' = [loc EXCEPT ![p].system = <<>>, ![p].history = <<>>,
                                 ![p].model = "", ![p].chosenModel = ""]
          /\ UNCHANGED <<faults, res>>
    /\ UNCHANGED <<config, store, time, req, ghost>>

\* what one reader.read() may deliver: the events of its data lines
Chunks == {<<"delta">>, <<"message_stop">>, <<"delta", "message_stop">>}

RECURSIVE Streams(_)
\* the event sequences a stream of at most n chunks delivers before it ends
Streams(n) ==
    IF n = 0 THEN {<<>>}
    ELSE Streams(n - 1) \cup {s \o c : s \in Streams(n - 1), c \in Chunks}

\* a stream that delivers text and ends with its one message_stop; any other
\* stream counts as a failure of the provider
Complete(events) ==
    /\ Len(events) >= 2
    /\ events[Len(events)] = "message_stop"
    /\ \A i \in 1..(Len(events) - 1) : events[i] = "delta"

RECURSIVE Relay(_, _)
\* lines 386-405: a delta appends a token event, message_stop a done event
Relay(r, events) ==
    IF events = <<>> THEN r
    ELSE Relay(WriteEvent(r, IF Head(events) = "delta" THEN "token" ELSE "done"),
               Tail(events))

\* assistantText += deltaText, for every delta
Deltas(events) == [i \in 1..Len(SelectSeq(events, LAMBDA e : e = "delta")) |-> "a"]

\* lines 425-428: the catch of the handler, for an error that is not an abort.
\* res.status(500).json(...) answers 500 while nothing was written; once an
\* event was written the headers are sent, res.json throws and the error
\* leaves the handler with the response left open.
Catch(r) == IF r.status = 0 THEN Respond(r, 500) ELSE [r EXCEPT !.escaped = TRUE]

\* a read loop that stores the reply with the delta it relays
StreamRead_SavesEarly(p) ==
    /\ backend = "supabase"
    /\ pc[p] = "stream"
    /\ messages' = Append(messages, Row(req[p].conversationId, "assistant", <<"a">>, clock,
                                        idBase + 2 * p - 1))
    /\ res' = [res EXCEPT ![p] = WriteEvent(res[p], "token")]
    /\ loc' = [loc EXCEPT ![p].assistantText = <<"a">>, ![p].now = clock]
    /\ pc' = [pc EXCEPT ![p] = "saveAssistant"]
    /\ UNCHANGED <<config, conversations, time, req, faults, ghost>>

\* lines 373-408: the read loop, until the stream is done or reader.read()
\* rejects; the loop touches only the response and the handler's locals.
\* Line 414 then reads Date.now().
StreamRead(p) ==
    /\ backend = "supabase"
    /\ pc[p] = "stream"
    /\ \E events \in Streams(MaxChunks), thrown \in BOOLEAN :
        LET sound == Complete(events) /\ ~thrown
        IN  /\ sound \/ MayFail
            /\ faults' = faults + Cost(sound)
            /\ res' = [res EXCEPT ![p] =
                        IF thrown THEN Catch(Relay(res[p], events))
                        ELSE Relay(res[p], events)]
            /\ loc' = [loc EXCEPT ![p] =
                        IF thrown THEN InitLoc
                        ELSE [loc[p] EXCEPT !.assistantText = Deltas(events), !.now = clock]]
            /\ pc' = [pc EXCEPT ![p] = IF thrown THEN "done" ELSE "saveAssistant"]
    /\ UNCHANGED <<config, store, time, req, ghost>>

\* lines 410-423: insert of the assistant message, update of updated_at (their
\* results are not looked at), res.end()
SaveAssistant(p) ==
    /\ backend = "supabase"
    /\ pc[p] = "saveAssistant"
    /\ \E o \in Outcomes2 :
        LET cid == req[p].conversationId
            row == Row(cid, "assistant", loc[p].assistantText, loc[p].now,
                       idBase + 2 * p - 1)
        IN  /\ faults' = faults + Cost(o[1]) + Cost(o[2])
            /\ IF o[1]
               THEN \E i \in InsertPositions(messages, row) :
                        messages' = InsertRow(messages, i, row)
               ELSE UNCHANGED messages
            /\ IF o[2] /\ cid \in DOMAIN conversations
               THEN conversations' = [conversations EXCEPT ![cid].updated_at = clock]
               ELSE UNCHANGED conversations
    /\ pc' = [pc EXCEPT ![p] = "done"]
    /\ res' = [res EXCEPT ![p].status = IF @ = 0 THEN 200 ELSE @, ![p].ended = TRUE]
    /\ loc' = [loc EXCEPT ![p] = InitLoc]
    /\ UNCHANGED <<config, time, req, ghost>>

\* ------------------------------------------- src/unnamed/part_001
\* lines 214-216: the system prompt of the JSON-file variant
JsonSystemPrompt(summary) ==
    IF summary # <<>> THEN SummaryBanner \o <<"\n">> \o summary ELSE <<>>

JSON_MODEL_SONNET == "claude-sonnet-4-5-20251001"
JSON_MODEL_HAIKU == "claude-haiku-4-5-20251001"

\* line 266: const chosenModel = (model || MODEL_SONNET).trim()
JsonChosenModel(m) == StrTrim(IF m = NoModel THEN JSON_MODEL_SONNET ELSE m)

\* lines 211-286: the request to the primary model is built from the cached
\* store and sent
JsonContext(l, conv2, msgs, body, model) ==
    [l EXCEPT !.system = JsonSystemPrompt(conv2.summary),
              !.history = History(msgs, body),
              !.model = model,
              !.chosenModel = JsonChosenModel(model),
              !.msgs = <<>>, !.detached = FALSE, !.orphan = <<>>]

\* lines 181-209, 77-115 and 211-286: everything up to the first await that
\* leaves the process: the checks, the push of the user message, the trigger
\* checks of maybeSummarizeConversation, and either the summarizer request or
\* the request to the primary model
JsonChatStream(p) ==
    /\ backend = "json"
    /\ Startable(p)
    /\ \E body \in Bodies, model \in Models :
        LET cid == body.conversationId
            conv == SelectConversation(conversations, cid)
            rejected == Rejection(API_KEY, body, conv)
            forget == {q \in Procs : q < p /\ ~overlapping /\ rejected = 0}
            row == Row(cid, "user", UserContent(body), clock, idBase + 2 * p - 2)
            pushed == Append(messages, row)
            conv1 == [conv EXCEPT !.updated_at = clock,
                                  !.title = NewTitle(conv.title, UserText(body))]
            msgs == SelectMessages(pushed, cid)
            due == CompactionDue(msgs, conv1.summary_updated_at, clock)
        IN  /\ rejected # 0 => p = 1
            /\ req' = [q \in Procs |->
                        IF q = p THEN body ELSE IF q \in forget THEN InitReq ELSE req[q]]
            /\ res' = [q \in Procs |->
                        IF q = p THEN (IF rejected # 0 THEN Respond(InitRes, rejected)
                                       ELSE InitRes)
                        ELSE IF q \in forget THEN InitRes ELSE res[q]]
            /\ pc' = [q \in Procs |->
                        IF q = p THEN (IF rejected # 0 THEN "rejected"
                                       ELSE IF due THEN "sumFetch" ELSE "fetch")
                        ELSE IF q \in forget THEN "retired" ELSE pc[q]]
            /\ IF rejected # 0
               THEN UNCHANGED <<store, loc>>
               ELSE /\ messages' = pushed
                    /\ conversations' = [conversations EXCEPT ![cid] = conv1]
                    /\ loc' = [loc EXCEPT ![p] =
                                IF due THEN [InitLoc EXCEPT !.msgs = msgs]
                                ELSE JsonContext(InitLoc, conv1, msgs, body, model)]
    /\ UNCHANGED <<config, time, faults, ghost>>

\* const msgs = conv.messages: the array the handler holds. It is the stored
\* array itself until another compaction replaces conv.messages; from then on
\* it is the array that was replaced.
JsonMsgs(p) ==
    IF loc[p].detached THEN loc[p].orphan
    ELSE SelectMessages(messages, req[p].conversationId)

\* lines 103-131 and 211-286: the summarizer answers; on success the summary
\* is stored and conv.messages = msgs.slice(-keepLast), in one synchronous
\* block; then the request to the primary model is built and sent
JsonSumFetch(p) ==
    /\ backend = "json"
    /\ pc[p] = "sumFetch"
    /\ \E model \in Models :
       LET cid == req[p].conversationId
           stored == SelectMessages(messages, cid)
           proceed == /\ pc' = [pc EXCEPT ![p] = "fetch"]
                      /\ loc' = [loc EXCEPT ![p] =
                                  JsonContext(loc[p], conversations[cid], stored, req[p], model)]
                      /\ UNCHANGED <<store, res, ghost>>
       IN  \/ /\ MayFail
              /\ faults' = faults + 1
              /\ \E f \in SummarizerFailures :
                    IF f = "status"
                    THEN proceed
                    ELSE /\ pc' = [pc EXCEPT ![p] = "done"]
                         /\ loc' = [loc EXCEPT ![p] = InitLoc]
                         /\ res' = [res EXCEPT ![p] = Respond(res[p], 500)]
                         /\ UNCHANGED <<store, ghost>>
           \/ /\ UNCHANGED faults
              /\ \E content \in SummarizerContents :
                    LET summary == Trim(pickTextFromAnthropic(content))
                        kept == SliceFrom(JsonMsgs(p), 0 - keepLast)
                        conv1 == [conversations[cid] EXCEPT
                                    !.summary = summary,
                                    !.summary_updated_at = clock,
                                    !.updated_at = clock]
                    IN  IF summary = <<>>
                        THEN proceed
                        ELSE /\ conversations' = [conversations EXCEPT ![cid] = conv1]
                             /\ messages' = SelectSeq(messages, LAMBDA r : r.cid # cid) \o kept
                             /\ lastDeleted' = [lastDeleted EXCEPT
                                                 ![cid] = Ids(stored) \ Ids(kept)]
                             /\ summarySrc' = [summarySrc EXCEPT
                                                ![cid] = Ids(OldSlice(loc[p].msgs))]
                             /\ pc' = [pc EXCEPT ![p] = "fetch"]
                             /\ loc' = [q \in Procs |->
                                    IF q = p THEN JsonContext(loc[p], conv1, kept, req[p], model)
                                    ELSE IF /\ pc[q] = "sumFetch"
                                            /\ req[q].conversationId = cid
                                            /\ ~loc[q].detached
                                         THEN [loc[q] EXCEPT !.detached = TRUE,
                                                             !.orphan = stored]
                                         ELSE loc[q]]
                             /\ UNCHANGED res
    /\ UNCHANGED <<config, time, req>>

\* lines 296-343: the read loop, then, in the same synchronous block as the
\* last read, the push of the assistant message and res.end()
JsonFinish(p) ==
    /\ backend = "json"
    /\ pc[p] = "stream"
    /\ \E events \in Streams(MaxChunks), thrown \in BOOLEAN :
        LET cid == req[p].conversationId
            row == Row(cid, "assistant", Deltas(events), clock, idBase + 2 * p - 1)
            sound == Complete(events) /\ ~thrown
        IN  /\ sound \/ MayFail
            /\ faults' = faults + Cost(sound)
            /\ res' = [res EXCEPT ![p] =
                        IF thrown THEN Catch(Relay(res[p], events))
                        ELSE [Relay(res[p], events) EXCEPT
                                !.status = IF @ = 0 THEN 200 ELSE @, !.ended = TRUE]]
            /\ IF cid \in DOMAIN conversations /\ ~thrown
               THEN /\ messages' = Append(messages, row)
                    /\ conversations' = [conversations EXCEPT ![cid].updated_at = clock]
               ELSE UNCHANGED store
    /\ pc' = [pc EXCEPT ![p] = "done"]
    /\ loc' = [loc EXCEPT ![p] = InitLoc]
    /\ UNCHANGED <<config, time, req, ghost>>

\* ------------------------------------------------------ client disconnect
\* the awaits during which the listener of lines 342-343 (part_001 268-269)
\* is registered and the request it aborts is in flight
Abortable == {"fetch", "stream"}

\* The client closes the connection during an accepted turn. req.on("close")
\* aborts the request to the primary model when the listener is registered:
\* fetch or reader.read() rejects with an AbortError and the catch returns
\* (line 426). Anywhere else the close goes unnoticed and the handler runs on.
\* A disconnect is counted with the failures.
Disconnect(p) ==
    /\ pc[p] \notin {"idle", "rejected", "done", "retired"}
    /\ ~res[p].closed
    /\ MayFail
    /\ faults' = faults + 1
    /\ res' = [res EXCEPT ![p].closed = TRUE]
    /\ IF pc[p] \in Abortable
       THEN /\ pc' = [pc EXCEPT ![p] = "done"]
            /\ loc' = [loc EXCEPT ![p] = InitLoc]
       ELSE UNCHANGED <<pc, loc>>
    /\ UNCHANGED <<config, store, time, req, ghost>>

\* ------------------------------------------------------- specification
Next ==
    \/ Tick
    \/ \E p \in Procs : ChatStream(p)
    \/ \E p \in Procs : SaveUserTurn(p)
    \/ \E p \in Procs : SumRead(p)
    \/ \E p \in Procs : SumFetch(p)
    \/ \E p \in Procs : SumDelete(p)
    \/ \E p \in Procs : SumUpdate(p)
    \/ \E p \in Procs : ReadContext(p)
    \/ \E p \in Procs : PrimaryFetch(p)
    \/ \E p \in Procs : StreamRead(p)
    \/ \E p \in Procs : SaveAssistant(p)
    \/ \E p \in Procs : JsonChatStream(p)
    \/ \E p \in Procs : JsonSumFetch(p)
    \/ \E p \in Procs : JsonFinish(p)
    \/ \E p \in Procs : Disconnect(p)

Spec == Init /\ [][Next]_vars

\* ======================================================= POST /chat (part_000)
\* The earlier variant of the server: one route, the messages of a
\* conversation kept as an array in a column of its row, the provider reached
\* through the SDK. The array is modelled by the rows of the conversation in
\* table messages, in array order; its elements carry no ts.
LEGACY_SONNET == "claude-sonnet-4"
LEGACY_HAIKU == "claude-3-5-haiku-20241022"
summarizeAbove == 10
recentCount == 8

LegacyNormalizeModel(m) ==
    LET n == IF m = NoModel THEN LEGACY_SONNET ELSE m
    IN  IF Includes(n, "sonnet") THEN LEGACY_SONNET
        ELSE IF Includes(n, "haiku") THEN LEGACY_HAIKU
        ELSE LEGACY_SONNET

\* the id the database gives to the conversation inserted by slot p
NewConvId(p) == IF p = 1 THEN "n1" ELSE "n2"

\* messages.push({ role: 'user', content: userContent })
LegacyUserRow(p, body) ==
    Row(body.conversationId, "user", body.message, 0, idBase + 2 * p - 2)

\* the two messages that stand for the summarized part
SummaryPair(p, cid, summary) ==
    <<Row(cid, "user", <<"[", "R", "]">>, 0, 0 - 10 * p),
      Row(cid, "assistant", summary, 0, 0 - 10 * p - 1)>>

\* lines 271-279, and 290-326 when no conversation is named: the check of
\* the message, then either the select of the conversation or, with an empty
\* history, the request to the provider
LegacyChat(p) ==
    /\ backend = "legacy"
    /\ Startable(p)
    /\ \E body \in Bodies, model \in Models :
        LET rejected == IF body.message = <<>> THEN 400 ELSE 0
            forget == {q \in Procs : q < p /\ ~overlapping /\ rejected = 0}
            named == body.conversationId # NoId
        IN  /\ rejected # 0 => p = 1
            /\ req' = [q \in Procs |->
                        IF q = p THEN body ELSE IF q \in forget THEN InitReq ELSE req[q]]
            /\ res' = [q \in Procs |->
                        IF q = p THEN (IF rejected # 0 THEN Respond(InitRes, rejected)
                                       ELSE InitRes)
                        ELSE IF q \in forget THEN InitRes ELSE res[q]]
            /\ pc' = [q \in Procs |->
                        IF q = p THEN (IF rejected # 0 THEN "rejected"
                                       ELSE IF named THEN "select" ELSE "stream")
                        ELSE IF q \in forget THEN "retired" ELSE pc[q]]
            /\ loc' = [loc EXCEPT ![p] =
                        IF rejected # 0 THEN loc[p]
                        ELSE [InitLoc EXCEPT
                                !.model = model,
                                !.chosenModel = LegacyNormalizeModel(model),
                                !.msgs = IF named THEN <<>> ELSE <<LegacyUserRow(p, body)>>]]
    /\ UNCHANGED <<config, store, time, faults, ghost>>

\* lines 281-326: the select answers; conversation = data, which is null for
\* an id that is not stored or a select that failed. Then the summarizer is
\* called for a history of more than 10 messages, the provider otherwise.
LegacySelect(p) ==
    /\ backend = "legacy"
    /\ pc[p] = "select"
    /\ \E ok \in Outcomes :
        LET cid == req[p].conversationId
            conversation == IF ok THEN SelectConversation(conversations, cid) ELSE NoConv
            msgs == IF conversation = NoConv THEN <<>> ELSE SelectMessages(messages, cid)
            long == Len(msgs) > summarizeAbove
        IN  /\ faults' = faults + Cost(ok)
            /\ loc' = [loc EXCEPT
                        ![p].msgs = IF long THEN msgs
                                    ELSE Append(msgs, LegacyUserRow(p, req[p]))]
            /\ pc' = [pc EXCEPT ![p] = IF long THEN "summarize" ELSE "stream"]
    /\ UNCHANGED <<config, store, time, req, res, ghost>>

\* lines 206-237 and 293-326: summarizeOldMessages answers with the summary
\* pair and the last 8 messages, or, caught, with the messages as they were;
\* the user message is pushed and the provider called
LegacySummarize(p) ==
    /\ backend = "legacy"
    /\ pc[p] = "summarize"
    /\ \E ok \in Outcomes :
        LET cid == req[p].conversationId
            msgs == IF ok
                    THEN SummaryPair(p, cid, <<"S">>) \o SliceFrom(loc[p].msgs, 0 - recentCount)
                    ELSE loc[p].msgs
        IN  /\ faults' = faults + Cost(ok)
            /\ loc' = [loc EXCEPT ![p].msgs = Append(msgs, LegacyUserRow(p, req[p]))]
    /\ pc' = [pc EXCEPT ![p] = "stream"]
    /\ UNCHANGED <<config, store, time, req, res, ghost>>

\* lines 316-348 and 391-401: the stream of the provider, each text relayed,
\* until it ends or fails. At its end the assistant message is pushed, the
\* cost is written and cost_data is selected; a failure, of the call or of the
\* stream, is written as an error event and ends the response.
LegacyStream(p) ==
    /\ backend = "legacy"
    /\ pc[p] = "stream"
    /\ \E n \in 0..MaxChunks, ok \in Outcomes :
        LET texts == [i \in 1..n |-> "text"]
            relayed == [res[p] EXCEPT !.events = @ \o texts,
                                      !.status = IF n > 0 THEN 200 ELSE @]
            row == Row(req[p].conversationId, "assistant", [i \in 1..n |-> "a"], 0,
                       idBase + 2 * p - 1)
        IN  /\ faults' = faults + Cost(ok)
            /\ IF ok
               THEN /\ res' = [res EXCEPT ![p] = WriteEvent(relayed, "cost")]
                    /\ loc' = [loc EXCEPT ![p].msgs = Append(@, row),
                                           ![p].model = "", ![p].chosenModel = ""]
                    /\ pc' = [pc EXCEPT ![p] = "save"]
               ELSE /\ res' = [res EXCEPT ![p] =
                                [WriteEvent(relayed, "error") EXCEPT !.ended = TRUE]]
                    /\ loc' = [loc EXCEPT ![p] = InitLoc]
                    /\ pc' = [pc EXCEPT ![p] = "done"]
    /\ UNCHANGED <<config, store, time, req, ghost>>

\* lines 350-389: with a conversation id, the update of the row of that id
\* with the whole array; without one, the insert of a new conversation and
\* the event that tells its id. An error of the database is only logged.
\* Then the done event and res.end().
LegacySave(p) ==
    /\ backend = "legacy"
    /\ pc[p] = "save"
    /\ \E ok \in Outcomes :
        LET cid == req[p].conversationId
            new == NewConvId(p)
            array == [i \in 1..Len(loc[p].msgs) |->
                        [loc[p].msgs[i] EXCEPT !.cid = IF cid = NoId THEN new ELSE cid]]
            inserted == [title |-> Slice(req[p].message, 0, 50), summary |-> <<>>,
                         summary_updated_at |-> 0, updated_at |-> clock]
            told == IF cid = NoId /\ ok THEN WriteEvent(res[p], "conversationId") ELSE res[p]
        IN  /\ faults' = faults + Cost(ok)
            /\ IF ~ok THEN UNCHANGED store
               ELSE IF cid = NoId
               THEN /\ conversations' = conversations @@ (new :> inserted)
                    /\ messages' = messages \o array
               ELSE IF cid \in DOMAIN conversations
               THEN /\ conversations' = [conversations EXCEPT ![cid].updated_at = clock]
                    /\ messages' = SelectSeq(messages, LAMBDA r : r.cid # cid) \o array
               ELSE UNCHANGED store
            /\ res' = [res EXCEPT ![p] = [WriteEvent(told, "done") EXCEPT !.ended = TRUE]]
    /\ pc' = [pc EXCEPT ![p] = "done"]
    /\ loc' = [loc EXCEPT ![p] = InitLoc]
    /\ UNCHANGED <<config, time, req, ghost>>

\* the stored conversations the variant starts from: c1 empty, or long enough
\* to be summarized
LegacyCases == {c \in InitCases : c.key /\ c.dup = 0 /\ ~c.recent}

LegacyInit ==
    \E c \in LegacyCases :
        /\ backend = "legacy"
        /\ API_KEY = c.key
        /\ conversations = InitConversations(c)
        /\ messages = InitTable(c.n, c.dup, c.recent)
        /\ settings = <<>>
        /\ clock = StartClock
        /\ ticks = 0
        /\ idBase = c.n + 1
        /\ pc = [p \in Procs |-> "idle"]
        /\ req = [p \in Procs |-> InitReq]
        /\ loc = [p \in Procs |-> InitLoc]
        /\ res = [p \in Procs |-> InitRes]
        /\ overlapping = c.overlap
        /\ faults = 0
        /\ lastDeleted = [k \in ConvIds |-> {}]
        /\ summarySrc = [k \in ConvIds |-> {}]

LegacyNext ==
    \/ Tick
    \/ \E p \in Procs : LegacyChat(p)
    \/ \E p \in Procs : LegacySelect(p)
    \/ \E p \in Procs : LegacySummarize(p)
    \/ \E p \in Procs : LegacyStream(p)
    \/ \E p \in Procs : LegacySave(p)

LegacySpec == LegacyInit /\ [][LegacyNext]_vars

\* ================================================================= claims
\* the messages stored for the conversation of slot p, now and after the step
Stored(p) == SelectMessages(messages, req[p].conversationId)
StoredNext(p) == SelectMessages(messages', req[p].conversationId)

\* the step that ends a run of maybeSummarizeConversation by storing its summary
StoresSummary(p) ==
    /\ pc[p] = IF backend = "supabase" THEN "sumUpdate" ELSE "sumFetch"
    /\ pc'[p] # pc[p]
    /\ conversations' # conversations

\* C1: a run over N >= 22 messages (cooldown elapsed, old slice >= 12,
\* non-empty summary), during which nothing failed and no other request added
\* a message, ends with exactly min(N, 12) stored messages and a non-empty
\* summary.
C1_LeavesKeepLast ==
    [][\A p \in Procs :
        (/\ StoresSummary(p)
         /\ faults' = 0
         /\ Ids(StoredNext(p)) \subseteq Ids(loc[p].msgs))
        => /\ Len(StoredNext(p)) = Min(Len(loc[p].msgs), keepLast)
           /\ conversations'[req[p].conversationId].summary # <<>>]_vars

\* the step in which a run of maybeSummarizeConversation of slot p reads the
\* stored messages and takes its trigger decision
Decides(p) ==
    IF backend = "supabase"
    THEN pc[p] = "sumRead" /\ pc'[p] # "sumRead"
    ELSE Free(p) /\ pc'[p] \in {"sumFetch", "fetch"}

\* the messages that run finds stored
Seen(p) ==
    IF backend = "supabase" THEN Stored(p)
    ELSE SelectMessages(messages', req'[p].conversationId)

\* the run is over with this step and has neither removed a message nor
\* touched the summary
ReturnsUntouched(p) ==
    LET cid == req'[p].conversationId
    IN  /\ pc'[p] # "sumFetch"
        /\ conversations'[cid].summary = conversations[cid].summary
        /\ conversations'[cid].summary_updated_at = conversations[cid].summary_updated_at
        /\ Ids(SelectMessages(messages, cid)) \subseteq Ids(SelectMessages(messages', cid))
        /\ UNCHANGED ghost

Elapsed(p) ==
    clock - conversations[req'[p].conversationId].summary_updated_at >= cooldownMs

\* C2 (as stated): with exactly 22 stored messages and the cooldown elapsed,
\* compaction triggers (to delete the first 10 messages and leave the last 12).
C2_TriggersAt22 ==
    [][\A p \in Procs :
        (/\ Decides(p)
         /\ faults' = faults
         /\ Len(Seen(p)) = minMessagesForSummary
         /\ Elapsed(p))
        => pc'[p] = "sumFetch"]_vars

\* C2 (amended): with exactly 22 stored messages and the cooldown elapsed, the
\* old slice holds 10 < 12 messages and the run returns: no summarizer request,
\* no message removed, summary untouched.
C2_ReturnsAt22 ==
    [][\A p \in Procs :
        (/\ Decides(p)
         /\ faults' = faults
         /\ Len(Seen(p)) = minMessagesForSummary
         /\ Elapsed(p))
        => ReturnsUntouched(p)]_vars

\* a run over exactly 22 messages, cooldown elapsed, has returned
C2_Witness ==
    \E p \in Procs :
        /\ pc[p] = IF backend = "supabase" THEN "readContext" ELSE "fetch"
        /\ Len(Stored(p)) = minMessagesForSummary
        /\ faults = 0
        /\ clock - conversations[req[p].conversationId].summary_updated_at >= cooldownMs
        /\ conversations[req[p].conversationId].summary = <<>>
        /\ lastDeleted[req[p].conversationId] = {}

\* C3: a run that finds fewer than 22 stored messages returns at once: it
\* issues no summarizer request, removes no message and leaves the summary
\* and its timestamp as they were.
C3_BelowThreshold ==
    [][\A p \in Procs :
        (Decides(p) /\ Len(Seen(p)) < minMessagesForSummary) => ReturnsUntouched(p)]_vars

\* a run over 21 messages (one short of the threshold) has returned
C3_Witness ==
    \E p \in Procs :
        /\ pc[p] = IF backend = "supabase" THEN "readContext" ELSE "fetch"
        /\ Len(Stored(p)) = minMessagesForSummary - 1
        /\ conversations[req[p].conversationId].summary = <<>>

\* the step in which a run of slot p removes messages
Removes(p) ==
    /\ pc[p] = IF backend = "supabase" THEN "sumDelete" ELSE "sumFetch"
    /\ pc'[p] # pc[p]
    /\ ~(Ids(Stored(p)) \subseteq Ids(StoredNext(p)))

\* C4: whatever the timestamps, a compaction leaves the 12 messages that are
\* the most recent when it deletes stored and unchanged.
C4_KeepsMostRecent ==
    [][\A p \in Procs :
        Removes(p) => SliceFrom(StoredNext(p), 0 - keepLast) = SliceFrom(Stored(p), 0 - keepLast)]_vars

\* the step with which a run of slot p that asked the summarizer is over
RunEnds(p) ==
    /\ pc[p] \in {"sumFetch", "sumUpdate"}
    /\ pc'[p] \notin {"sumFetch", "sumDelete", "sumUpdate"}

\* C6: a run is all or nothing. One that ends without storing its summary
\* leaves the store as it was before the run (every message of its old slice
\* still stored); one that stores its summary has removed its old slice.
C6_AllOrNothing ==
    [][\A p \in Procs :
        RunEnds(p) =>
            LET old == Ids(OldSlice(loc[p].msgs))
            IN  IF conversations' # conversations
                THEN old \cap Ids(StoredNext(p)) = {}
                ELSE /\ UNCHANGED store
                     /\ pc[p] = "sumUpdate" => old \subseteq Ids(Stored(p))]_vars

\* C7: no step of the compaction ends the request: whatever fails in it, the
\* handler goes on to the call of the primary model and the response is not
\* touched.
C7_FailureSwallowed ==
    [][\A p \in Procs :
        (pc[p] \in {"sumRead", "sumFetch", "sumDelete", "sumUpdate"} /\ pc'[p] # pc[p])
        => pc'[p] # "done" /\ res'[p] = res[p]]_vars

\* slot q has removed the old messages and not yet stored the summary
HalfCompacted(q) ==
    /\ pc[q] = "sumUpdate"
    /\ Ids(OldSlice(loc[q].msgs)) \cap Ids(Stored(q)) = {}
    /\ conversations[req[q].conversationId].summary # loc[q].summary

\* C8: no request reads the conversation while another request's compaction
\* has removed the old messages and not yet replaced the summary.
C8_Atomic ==
    [][\A p, q \in Procs :
        (/\ p # q
         /\ pc[p] \in {"sumRead", "readContext"}
         /\ pc'[p] # pc[p]
         /\ req[p].conversationId = req[q].conversationId)
        => ~HalfCompacted(q)]_vars

\* C5: a run that starts less than 60 s after the stored summary_updated_at
\* returns at the cooldown check, however many messages are stored: no
\* summarizer request, no message removed, summary untouched.
C5_Cooldown ==
    [][\A p \in Procs :
        (/\ Decides(p)
         /\ conversations[req'[p].conversationId].summary_updated_at > 0
         /\ ~Elapsed(p))
        => ReturnsUntouched(p)]_vars

\* a run over 24 or more messages has returned inside the cooldown of an
\* earlier compaction
C5_Witness ==
    \E p \in Procs :
        LET conv == conversations[req[p].conversationId]
        IN  /\ pc[p] = IF backend = "supabase" THEN "readContext" ELSE "fetch"
            /\ Len(Stored(p)) >= keepLast + minOldBatch
            /\ conv.summary # <<>>
            /\ conv.summary_updated_at > 0
            /\ clock - conv.summary_updated_at < cooldownMs
            /\ clock - conv.summary_updated_at >= cooldownMs \div 1000

\* no run is between its delete and its update on conversation c
NoRunWriting(c) ==
    \A p \in Procs : ~(pc[p] \in {"sumDelete", "sumUpdate"} /\ req[p].conversationId = c)

\* C9: outside a run's two writes, the messages the last compaction removed are
\* exactly those of the transcript the stored summary was made from, and none
\* of them is still stored.
C9_DeletedIsSummarized ==
    \A c \in ConvIds :
        NoRunWriting(c) =>
            /\ lastDeleted[c] = summarySrc[c]
            /\ summarySrc[c] \cap Ids(SelectMessages(messages, c)) = {}

\* the step in which slot p takes up a request
TakesRequest(p) ==
    /\ Free(p)
    /\ <<pc[p], req[p], res[p]>>' # <<pc[p], req[p], res[p]>>

\* no conversation id, or neither text (after trimming) nor attachment
InvalidBody(body) ==
    \/ body.conversationId = NoId
    \/ /\ \A i \in 1..Len(body.message) : body.message[i] \in Whitespace
       /\ ~body.attachments

\* the request is answered and over, and nothing was written or sent
RejectedWith(p, statuses) ==
    /\ res'[p].status \in statuses
    /\ res'[p].ended
    /\ res'[p].events = <<>>
    /\ pc'[p] = "rejected"
    /\ UNCHANGED <<store, ghost>>

\* C10 (as stated): a request without conversation id, or with an empty or
\* whitespace-only message and no attachment, is rejected with a client error,
\* with no persistence write and no provider call.
C10_ClientError ==
    [][\A p \in Procs :
        (TakesRequest(p) /\ InvalidBody(req'[p])) => RejectedWith(p, 400..499)]_vars

\* C10 (amended): such a request is rejected with no persistence write and no
\* provider call: with a client error when the provider credential is
\* configured, with the server error of the missing credential otherwise.
C10_Rejected ==
    [][\A p \in Procs :
        (TakesRequest(p) /\ InvalidBody(req'[p]))
        => RejectedWith(p, IF API_KEY THEN {400} ELSE {500})]_vars

\* a whitespace-only message without attachment was rejected with 400
C10_Witness ==
    \E p \in Procs :
        /\ pc[p] = "rejected"
        /\ res[p].status = 400
        /\ req[p].conversationId \in ConvIds
        /\ req[p].message # <<>>
        /\ InvalidBody(req[p])

\* the identifiers a variant names as its capable and its fast model
CanonicalModels == {MODEL_SONNET, MODEL_HAIKU, JSON_MODEL_SONNET, JSON_MODEL_HAIKU}
CapableModels == {MODEL_SONNET, JSON_MODEL_SONNET}

\* a model string that names neither tier
Unrecognised(m) == ~Includes(m, "sonnet") /\ ~Includes(m, "haiku")

\* C11: whatever model string the client sends, the request to the primary
\* provider names one of the canonical identifiers, and the capable-tier one
\* when the string is unrecognised.
C11_CanonicalModel ==
    \A p \in Procs :
        pc[p] = "fetch" =>
            /\ loc[p].chosenModel \in CanonicalModels
            /\ Unrecognised(loc[p].model) => loc[p].chosenModel \in CapableModels

\* the turn of p is over and its client stayed connected
TurnOver(p) == pc[p] = "done" /\ ~res[p].closed

Terminal == {"done", "error"}

\* zero or more token events, then one terminal event
TokensThenTerminal(events) ==
    /\ Len(events) >= 1
    /\ events[Len(events)] \in Terminal
    /\ \A i \in 1..(Len(events) - 1) : events[i] = "token"

\* C12: when an accepted turn that was not cancelled is over, the events
\* written to the caller are zero or more token events followed by exactly
\* one terminal event (done or error).
C12_OneTerminalEvent ==
    \A p \in Procs : TurnOver(p) => TokensThenTerminal(res[p].events)

\* a step of the handler of p, taken after its client has disconnected
StepAfterClose(p) == res[p].closed /\ pc'[p] # pc[p]

\* C13: once the client of an accepted turn has disconnected, no request to
\* the primary model stays in flight, the turn writes nothing more to the
\* store (no assistant message, no updated_at) and no error is reported.
C13_CancelledWritesNothing ==
    [][\A p \in Procs :
        /\ res'[p].closed => pc'[p] \notin Abortable
        /\ StepAfterClose(p) =>
            /\ UNCHANGED store
            /\ res'[p].status = res[p].status
            /\ "error" \notin {res'[p].events[i] : i \in (Len(res[p].events) + 1)..Len(res'[p].events)}]_vars

\* the assistant rows of the turn of p in a table
AssistantRows(table, p) ==
    {i \in 1..Len(table) : table[i].id = idBase + 2 * p - 1 /\ table[i].role = "assistant"}

\* C14: a step inserts the assistant message of a turn only if the upstream
\* stream of that turn delivered message_stop (relayed as the done event) and
\* some text.
C14_PersistsOnlyComplete ==
    [][\A p \in Procs :
        (AssistantRows(messages, p) = {} /\ AssistantRows(messages', p) # {}) =>
            /\ "done" \in {res'[p].events[i] : i \in 1..Len(res'[p].events)}
            /\ \A i \in AssistantRows(messages', p) : messages'[i].content # <<>>]_vars

\* a step in which the call to the primary model of the turn of p fails: the
\* turn ends from the fetch or from the read loop, the client being connected,
\* otherwise than by the res.end() of a stream read to its end
PrimaryFails(p) ==
    /\ pc[p] \in Abortable
    /\ pc'[p] = "done"
    /\ ~res'[p].closed
    /\ pc[p] = "stream" => ~(res'[p].ended /\ res'[p].status = 200)

\* C15: when the primary provider call of a turn fails, by a non-success
\* status or by throwing before or during the stream, the caller receives the
\* terminal error event, no exception leaves the handler and no assistant
\* message is persisted.
C15_FailureIsErrorEvent ==
    [][\A p \in Procs :
        PrimaryFails(p) =>
            /\ res'[p].events # <<>>
            /\ res'[p].events[Len(res'[p].events)] = "error"
            /\ ~res'[p].escaped
            /\ messages' = messages]_vars

\* the step that ends the insert of the user message of p, the row not stored
UserInsertFails(p) ==
    /\ pc[p] = "saveUser"
    /\ pc'[p] # pc[p]
    /\ \A i \in 1..Len(messages') : messages'[i].id # idBase + 2 * p - 2

\* C16: when the insert of the user message fails the request fails there:
\* it is answered with a server error and goes on to no provider call and no
\* assistant message.
C16_StoreFailureIsFatal ==
    [][\A p \in Procs :
        UserInsertFails(p) =>
            /\ pc'[p] = "done"
            /\ res'[p].ended
            /\ res'[p].status \in 500..599]_vars

\* the request of slot p names a conversation that is not in the store
NamesAbsent(p) ==
    /\ req'[p].conversationId # NoId
    /\ req'[p].conversationId \notin DOMAIN conversations

\* C17: a chat request that names a conversation id absent from the store
\* goes no further than the select of that conversation: it is answered with
\* a client error, with no provider call and no persistence write.
C17_AbsentIsClientError ==
    [][\A p \in Procs :
        (NamesAbsent(p) /\ pc'[p] # pc[p] /\ pc'[p] # "retired") =>
            /\ \/ pc'[p] = "select"
               \/ /\ pc'[p] = "rejected"
                  /\ res'[p].status \in 400..499
                  /\ res'[p].ended
                  /\ res'[p].events = <<>>
            /\ UNCHANGED store]_vars

\* the title holds a value taken from a user message
TitleSet(c) == conversations[c].title \notin {<<>>, PlaceholderTitle}

\* C18: once the title of a conversation holds a value derived from a user
\* message, no step of any chat turn changes it, whatever the interleaving of
\* the turns on the conversation.
C18_TitleSetOnce ==
    [][\A c \in ConvIds :
        TitleSet(c) => conversations'[c].title = conversations[c].title]_vars

\* a run of maybeSummarizeConversation on conversation c stores its summary
CompactionStores(c) ==
    \E p \in Procs : StoresSummary(p) /\ req[p].conversationId = c

\* C19: the summary of a conversation changes only in the step by which a
\* successful compaction stores it, and then to a non-empty text; a non-empty
\* summary never becomes empty, and summary_updated_at never decreases.
C19_SummaryMonotonic ==
    [][\A c \in ConvIds :
        /\ conversations'[c].summary # conversations[c].summary =>
            CompactionStores(c) /\ conversations'[c].summary # <<>>
        /\ conversations[c].summary # <<>> => conversations'[c].summary # <<>>
        /\ conversations'[c].summary_updated_at >= conversations[c].summary_updated_at]_vars

\* list after is list before with one message appended at its end
AppendsOne(before, after) ==
    /\ Len(after) = Len(before) + 1
    /\ SubSeq(after, 1, Len(before)) = before

\* list after is list before without a contiguous prefix
DropsPrefix(before, after) ==
    \E k \in 1..Len(before) : after = SubSeq(before, k + 1, Len(before))

\* C20: from one state to the next the stored message list of a conversation,
\* in ts order, stays as it is, gains one message at its end, or loses a
\* contiguous prefix.
C20_AppendOrDropPrefix ==
    [][\A c \in ConvIds :
        LET before == SelectMessages(messages, c)
            after == SelectMessages(messages', c)
        IN  \/ after = before
            \/ AppendsOne(before, after)
            \/ DropsPrefix(before, after)]_vars

\* the rows of table messages' that the step has inserted
Inserted == {i \in 1..Len(messages') : messages'[i].id \notin Ids(messages)}

\* what GET /api/conversations/:id returns as the messages of conversation c
\* when it reads the table after the step
ReadBack(c) == SelectMessages(messages', c)

\* C21: when a step of a chat turn has appended a message to a conversation,
\* reading the conversation returns that message, role and content as
\* appended, as the last element of the list in ts order.
C21_AppendedReadsLast ==
    [][\A i \in Inserted :
        LET list == ReadBack(messages'[i].cid)
        IN  list[Len(list)] = messages'[i]]_vars

\* the run of maybeSummarizeConversation of slot p has read the message list
\* and has not yet written its summary
CompactionInFlight(p) == pc[p] \in {"sumFetch", "sumDelete", "sumUpdate"}

\* C22: no two runs of maybeSummarizeConversation on the same conversation are
\* both between their read of the message list and their write of the
\* summary.
C22_SingleCompaction ==
    \A p, q \in Procs :
        (/\ p # q
         /\ CompactionInFlight(p)
         /\ CompactionInFlight(q)) => req[p].conversationId # req[q].conversationId

\* the turn of slot p has run to its end and told the caller so
Completed(p) ==
    /\ pc[p] = "done"
    /\ res[p].events # <<>>
    /\ res[p].events[Len(res[p].events)] = "done"

\* the ids of the user message and of the assistant reply of the turn of p
TurnIds(p) == {idBase + 2 * p - 2, idBase + 2 * p - 1}

\* two overlapping turns on one stored conversation have both completed
BothCompleted ==
    /\ overlapping
    /\ \A p \in Procs : Completed(p)
    /\ req[1].conversationId = req[2].conversationId
    /\ req[1].conversationId \in DOMAIN conversations

\* C23: when two overlapping chat turns on one conversation have both
\* completed, the stored transcript holds the user message and the assistant
\* reply of both, except for what a compaction has removed.
C23_NoLostUpdate ==
    BothCompleted =>
        \A p \in Procs :
            TurnIds(p) \subseteq Ids(Stored(p)) \cup lastDeleted[req[p].conversationId]

\* no handler that serves conversation b takes the step
StepOfOthers(b) ==
    \A p \in Procs : pc'[p] # pc[p] => req'[p].conversationId # b

\* C24: a step of a chat turn or of a compaction on a conversation leaves the
\* row (title, summary, summary_updated_at, updated_at) and the stored
\* messages of every other conversation as they were.
C24_OtherConversationsUntouched ==
    [][\A b \in ConvIds :
        StepOfOthers(b) =>
            /\ conversations'[b] = conversations[b]
            /\ SelectMessages(messages', b) = SelectMessages(messages, b)]_vars

\* a turn on c1 has completed and a compaction has removed the first message
\* of c1, whose ts the first message of c2 shares
C24_Witness ==
    \E p \in Procs :
        /\ Completed(p)
        /\ req[p].conversationId = "c1"
        /\ 1 \in lastDeleted["c1"]
        /\ 1 \notin Ids(SelectMessages(messages, "c1"))
        /\ SelectMessages(messages, "c2") = OtherHistory

\* the three trigger conditions, on what the run of slot p finds stored
TriggerHolds(p) ==
    /\ Len(Seen(p)) >= minMessagesForSummary
    /\ Elapsed(p)
    /\ Len(Seen(p)) - keepLast >= minOldBatch

\* C25: a run of maybeSummarizeConversation whose reads are answered issues
\* its summarizer request exactly when the three trigger conditions hold
\* (messages >= 22, now - summary_updated_at >= 60 s, messages - 12 >= 12);
\* when one of them is false it issues no request and changes nothing.
C25_RequestIffTriggers ==
    [][\A p \in Procs :
        (Decides(p) /\ faults' = faults) =>
            IF TriggerHolds(p) THEN pc'[p] = "sumFetch" ELSE ReturnsUntouched(p)]_vars

\* a run has found 24 or more messages with the cooldown elapsed and its
\* summarizer request is in flight
C25_Witness ==
    \E p \in Procs :
        /\ pc[p] = "sumFetch"
        /\ Len(loc[p].msgs) >= keepLast + minOldBatch
        /\ clock - conversations[req[p].conversationId].summary_updated_at >= cooldownMs
        /\ faults = 0

\* the step by which the turn of slot p builds and sends its request to the
\* primary model
SendsPrimary(p) == pc[p] # "fetch" /\ pc'[p] = "fetch"

EndsWith(s, tail) ==
    Len(s) >= Len(tail) /\ SubSeq(s, Len(s) - Len(tail) + 1, Len(s)) = tail

\* C26: the system prompt of the request to the primary model starts with the
\* summary block iff the summary stored when the request is built is
\* non-empty, ends with the configured custom instruction, and is left out of
\* the request exactly when there is neither.
C26_SystemFromStoredSummary ==
    [][\A p \in Procs :
        (backend = "supabase" /\ SendsPrimary(p)) =>
            LET summary == conversations[req[p].conversationId].summary
                system == loc'[p].system
            IN  /\ summary # <<>> <=>
                     StartsWith(system, SummaryBanner \o <<"\n">> \o summary)
                /\ EndsWith(system, settings)
                /\ system = <<>> <=> (summary = <<>> /\ settings = <<>>)]_vars

\* the place of an await of the handler in the order of a turn
Rank(at) ==
    CASE at = "saveUser" -> 1
      [] at = "sumRead" -> 2
      [] at = "sumFetch" -> 3
      [] at = "sumDelete" -> 4
      [] at = "sumUpdate" -> 5
      [] at = "readContext" -> 6
      [] at = "fetch" -> 7
      [] at = "stream" -> 8
      [] at = "saveAssistant" -> 9
      [] OTHER -> 10

\* a step of the accepted turn of slot p
TurnStep(p) == ~Free(p) /\ pc'[p] # pc[p] /\ pc'[p] # "retired"

HasRow(table, id) == \E i \in 1..Len(table) : table[i].id = id

\* the step stores the row of that id
Stores(id) ==
    /\ messages' # messages
    /\ HasRow(messages', id)
    /\ ~HasRow(messages, id)

\* the ids of the user message and of the assistant message of the turn of p
UserId(p) == idBase + 2 * p - 2
AssistantId(p) == idBase + 2 * p - 1

\* C27: the steps of one chat turn follow one order: insert of the user
\* message, compaction (read, summarizer call, delete, update), re-read and
\* request to the primary model, the stream, insert of the assistant message.
\* The summarizer call is over before the primary request is sent, events are
\* written only while the primary call is open, and the assistant message is
\* stored only after the stream has ended.
C27_StepsInOrder ==
    [][\A p \in Procs :
        /\ TurnStep(p) => Rank(pc'[p]) > Rank(pc[p])
        /\ Stores(UserId(p)) => (Free(p) \/ pc[p] = "saveUser")
        /\ Len(res'[p].events) > Len(res[p].events) => pc[p] \in Abortable
        /\ Stores(AssistantId(p)) =>
            /\ pc'[p] = "done"
            /\ pc[p] = IF backend = "supabase" THEN "saveAssistant" ELSE "stream"]_vars

\* a turn has gone through every step: its compaction has removed the first
\* message, its reply was streamed to the end and stored
C27_Witness ==
    \E p \in Procs :
        /\ backend = "supabase"
        /\ Completed(p)
        /\ conversations[req[p].conversationId].summary = NewSummary
        /\ 1 \in lastDeleted[req[p].conversationId]
        /\ TurnIds(p) \subseteq Ids(Stored(p))

\* C28: the message list of the request to the primary model ends with the
\* user message of the current turn, holds that message nowhere else, and
\* holds at most MAX_TURNS stored messages before it.
C28_CurrentMessageOnce ==
    \A p \in Procs :
        pc[p] = "fetch" =>
            LET history == loc[p].history
                n == Len(history)
            IN  /\ n >= 1
                /\ history[n].role = "user"
                /\ history[n].content = CurrentContent(req[p])
                /\ n - 1 <= MAX_TURNS
                /\ \A i \in 1..(n - 1) : history[i].id # UserId(p)

\* C29: the messages the stored summary of a conversation stands for only
\* grow: what an earlier compaction has summarized (and deleted) is still
\* among the sources of the summary a later compaction stores, through the
\* transcript or through the previous summary given to the summarizer.
C29_SummaryKeepsEarlier ==
    [][\A c \in ConvIds : summarySrc[c] \subseteq summarySrc'[c]]_vars

====
